---- MODULE Spec2Model ----
(***************************************************************************)
(* Model of scqubits/core/qubit_base.py: the single-point eigensolve of    *)
(* QubitBaseClass, the parameter sweep get_spectrum_vs_paramvals (run      *)
(* sequentially on the caller's object or by a pool of workers) and the    *)
(* dispersion computation built on a nested sweep.                         *)
(*                                                                         *)
(* The abstract system is instantiated by a small concrete one with three  *)
(* attributes EJ, ng, EC and a diagonal Hamiltonian, so that eigenvalues   *)
(* are the sorted diagonal and eigenvectors are basis indices.  Energies   *)
(* are integers.  np.linspace(0, 1, point_count) is counted in ticks       *)
(* 0 .. point_count-1.                                                     *)
(***************************************************************************)
EXTENDS Integers, Sequences, FiniteSets, TLC

VARIABLES
    sys,         \* the caller's system object: its attributes (self.__dict__)
    param_vals,  \* the caller's array of parameter values, passed to the calls
    pc,          \* "idle", "sweep", "dispersion_sweep", "dispersion_table",
                 \* "returned" or "raised"
    call,        \* the running (or last) call: its name and arguments
    loc,         \* the local variables of the running call
    workers,     \* the pool of a parallel sweep: point in work -> the worker's copy
    ret,         \* what the caller received: a value or an exception
    pre,         \* history: the caller's system and array when the call began
    _quantumsystem_counter,  \* QuantumSystem._quantumsystem_counter
    created,     \* history: the number of instances created so far
    destroyed    \* history: the number of instances destroyed so far

counters == <<_quantumsystem_counter, created, destroyed>>

vars == <<sys, param_vals, pc, call, loc, workers, ret, pre, counters>>

\* ----- bounds of the model ------------------------------------------------
MaxVal == 2      \* attribute and parameter values range over 0 .. MaxVal
MaxLen == 2      \* param_vals has 1 .. MaxLen entries
MaxCpus == 2     \* num_cpus is 1 or MaxCpus
PointCount == 2  \* point_count, the number of samples of the induced parameter
MaxInstances == 2  \* at most MaxInstances instances are ever created

Vals == 0 .. MaxVal
ParamNames == {"EJ", "ng"}
ParamSeqs == UNION {[1 .. n -> Vals] : n \in 1 .. MaxLen}

\* ----- the concrete system ------------------------------------------------
\* hilbertdim(): the dimension of the Hilbert space.
HilbertDim == 3

hilbertdim(self) == HilbertDim

\* hamiltonian(): the diagonal of the Hamiltonian in the internal basis, basis
\* state n = 0 .. dim-1.  State 0 has energy -EJ, which no ng changes; the
\* others are charge-like states, whose order changes with ng.
hamiltonian_entry(self, n) ==
    IF n = 0 THEN 0 - self.EJ
    ELSE self.EC * (n - self.ng) * (n - self.ng) + self.EJ * n

hamiltonian(self) == [k \in 1 .. hilbertdim(self) |-> hamiltonian_entry(self, k - 1)]

\* ----- numpy / scipy -------------------------------------------------------
\* scipy.linalg.eigh of a diagonal matrix: eigenpairs <<value, basis index>>
\* in ascending order of the value.
eigh_pairs(mat) ==
    SortSeq([k \in 1 .. Len(mat) |-> <<mat[k], k - 1>>],
            LAMBDA a, b : a[1] < b[1] \/ (a[1] = b[1] /\ a[2] < b[2]))

\* eigvals=(0, evals_count - 1) is a valid index range of the matrix.
eigh_range_ok(mat, evals_count) == evals_count >= 1 /\ evals_count - 1 < Len(mat)

eigh_evals(mat, evals_count) == [k \in 1 .. evals_count |-> eigh_pairs(mat)[k][1]]

eigh_evecs(mat, evals_count) == [k \in 1 .. evals_count |-> eigh_pairs(mat)[k][2]]

\* Faulty variant of np_sort: descending.
np_sort_desc(a) == SortSeq(a, LAMBDA x, y : x > y)

\* np.sort: ascending.
np_sort(a) == SortSeq(a, LAMBDA x, y : x < y)

Raise(name) == [ok |-> FALSE, error |-> name]

\* ----- single-point solve --------------------------------------------------
\* conv: whether the dense solve converges (eigh raises LinAlgError if not).
\* eigh checks the index range before it solves.
_evals_calc(self, evals_count, conv) ==
    LET hamiltonian_mat == hamiltonian(self) IN
    IF ~eigh_range_ok(hamiltonian_mat, evals_count) THEN Raise("ValueError")
    ELSE IF ~conv THEN Raise("LinAlgError")
    ELSE [ok |-> TRUE,
          evals |-> np_sort(eigh_evals(hamiltonian_mat, evals_count)),
          evecs |-> <<>>]

\* order_eigensystem(evals, evecs): both reordered by ascending eigenvalue.
order_eigensystem(evals, evecs) ==
    LET pairs == SortSeq([k \in 1 .. Len(evals) |-> <<evals[k], k>>],
                         LAMBDA a, b : a[1] < b[1] \/ (a[1] = b[1] /\ a[2] < b[2]))
    IN [evals |-> [k \in 1 .. Len(evals) |-> pairs[k][1]],
        evecs |-> [k \in 1 .. Len(evals) |-> evecs[pairs[k][2]]]]

_esys_calc(self, evals_count, conv) ==
    LET hamiltonian_mat == hamiltonian(self) IN
    IF ~eigh_range_ok(hamiltonian_mat, evals_count) THEN Raise("ValueError")
    ELSE IF ~conv THEN Raise("LinAlgError")
    ELSE LET o == order_eigensystem(eigh_evals(hamiltonian_mat, evals_count),
                                    eigh_evecs(hamiltonian_mat, evals_count))
         IN [ok |-> TRUE, evals |-> o.evals, evecs |-> o.evecs]

\* eigenvals / eigensys with filename = None, return_spectrumdata = False.
eigenvals(self, evals_count, conv) == _evals_calc(self, evals_count, conv)

eigensys(self, evals_count, conv) == _esys_calc(self, evals_count, conv)

\* getattr(self, operator)(): the matrix of the operator in the internal basis,
\* as [row][column].  The charge-like operator n - ng on the diagonal, coupled
\* by EJ off it: its matrix depends on the attributes.
n_operator(self) ==
    [a \in 1 .. hilbertdim(self) |-> [b \in 1 .. hilbertdim(self) |->
        IF a = b THEN (a - 1) - self.ng ELSE self.EJ]]

operator_matrix(self, operator) == n_operator(self)

\* get_matrixelement_table(operator_matrix, evecs): entry [i][j] is
\* <evec_i| operator |evec_j>, the eigenvectors being basis vectors.
get_matrixelement_table(operator_mat, evecs) ==
    [i \in DOMAIN evecs |-> [j \in DOMAIN evecs |->
        operator_mat[evecs[i] + 1][evecs[j] + 1]]]

\* matrixelement_table(operator, evecs, evals_count) with filename = None;
\* evecs = <<>> stands for evecs=None: the eigenvectors are solved here.
matrixelement_table(self, operator, evecs, evals_count, conv) ==
    LET esys == IF evecs = <<>> THEN eigensys(self, evals_count, conv)
                ELSE [ok |-> TRUE, evals |-> <<>>, evecs |-> evecs]
    IN IF ~esys.ok THEN esys
       ELSE [ok |-> TRUE,
             table |-> get_matrixelement_table(operator_matrix(self, operator),
                                               esys.evecs)]

\* get_initdata(): the attributes named by _init_params.
get_initdata(self) == self

\* ----- values the variables take when no call is running -------------------
NoCall == [op |-> "none"]
NoLoc == [previous_paramval |-> 0]
NoRet == [kind |-> "none"]
NoWorkers == <<>>
Pending == [ok |-> FALSE, error |-> "pending"]

\* Lines 73-75: QuantumSystem._quantumsystem_counter += 1
__new__(counter) == counter + 1

\* Faulty variant of __del__: the counter is lowered twice.
__del___twice(counter) == counter - 2

\* Lines 77-85: QuantumSystem._quantumsystem_counter -= 1
__del__(counter) == counter - 1

\* The caller's system has been constructed: the one instance so far.
Init ==
    /\ _quantumsystem_counter = __new__(0)
    /\ created = 1
    /\ destroyed = 0
    /\ sys \in [EJ : Vals, ng : Vals, EC : {2}]
    /\ param_vals \in ParamSeqs
    /\ pc = "idle"
    /\ call = NoCall
    /\ loc = NoLoc
    /\ workers = NoWorkers
    /\ ret = NoRet
    /\ pre = [sys |-> sys, param_vals |-> param_vals]

\* Another instance is constructed.
Create ==
    /\ created < MaxInstances
    /\ _quantumsystem_counter' = __new__(_quantumsystem_counter)
    /\ created' = created + 1
    /\ UNCHANGED <<sys, param_vals, pc, call, loc, workers, ret, pre, destroyed>>

\* An instance other than the caller's system is garbage collected.
Destroy ==
    /\ created - destroyed > 1
    /\ _quantumsystem_counter' = __del__(_quantumsystem_counter)
    /\ destroyed' = destroyed + 1
    /\ UNCHANGED <<sys, param_vals, pc, call, loc, workers, ret, pre, created>>

\* set_params(**kwargs) with one keyword.
set_params(param_name, param_val) ==
    /\ pc = "idle"
    /\ sys' = [sys EXCEPT ![param_name] = param_val]
    /\ pre' = [sys |-> sys', param_vals |-> param_vals]
    /\ UNCHANGED <<param_vals, pc, call, loc, workers, ret>>
    /\ UNCHANGED counters

\* The caller builds another array of parameter values.
NewParamVals(a) ==
    /\ pc = "idle"
    /\ param_vals' = a
    /\ pre' = [sys |-> sys, param_vals |-> a]
    /\ UNCHANGED <<sys, pc, call, loc, workers, ret>>
    /\ UNCHANGED counters

\* The caller has looked at the outcome of the call; the frame is gone.
Ack ==
    /\ pc \in {"returned", "raised"}
    /\ pc' = "idle"
    /\ call' = NoCall
    /\ loc' = NoLoc
    /\ workers' = NoWorkers
    /\ ret' = NoRet
    /\ pre' = [sys |-> sys, param_vals |-> param_vals]
    /\ UNCHANGED <<sys, param_vals>>
    /\ UNCHANGED counters

\* Faulty variant of Propagate: a failed sweep returns the rows it has.
Propagate_partial(error) ==
    /\ pc' = IF call.op = "get_spectrum_vs_paramvals" THEN "returned" ELSE "raised"
    /\ ret' = IF call.op = "get_spectrum_vs_paramvals"
              THEN [kind |-> "SpectrumData",
                    energy_table |-> [i \in {j \in DOMAIN loc.mapdata : loc.mapdata[j].ok}
                                         |-> loc.mapdata[i].evals]]
              ELSE [kind |-> "error", error |-> error]
    /\ loc' = [previous_paramval |-> 0]
    /\ workers' = <<>>

\* An exception that nothing catches leaves the running call: the caller gets
\* the exception and nothing else, the frame and the pool are gone.
Propagate(error) ==
    /\ pc' = "raised"
    /\ ret' = [kind |-> "error", error |-> error]
    /\ loc' = NoLoc
    /\ workers' = NoWorkers

\* What a call that ends here hands to its caller.
Outcome(out, value) ==
    /\ pc' = IF out.ok THEN "returned" ELSE "raised"
    /\ ret' = IF out.ok THEN value ELSE [kind |-> "error", error |-> out.error]

\* Faulty variant of CallEigenvals: the solve leaves ng at 0.
CallEigenvals_resets(evals_count, conv) ==
    /\ pc = "idle"
    /\ call' = [op |-> "eigenvals", evals_count |-> evals_count]
    /\ pre' = [sys |-> sys, param_vals |-> param_vals]
    /\ LET out == eigenvals(sys, evals_count, conv)
       IN Outcome(out, [kind |-> "evals", evals |-> out.evals])
    /\ sys' = [sys EXCEPT !.ng = 0]
    /\ UNCHANGED <<param_vals, loc, workers>>
    /\ UNCHANGED counters

\* sys.eigenvals(evals_count), called by the user.
CallEigenvals(evals_count, conv) ==
    /\ pc = "idle"
    /\ call' = [op |-> "eigenvals", evals_count |-> evals_count]
    /\ pre' = [sys |-> sys, param_vals |-> param_vals]
    /\ LET out == eigenvals(sys, evals_count, conv)
       IN Outcome(out, [kind |-> "evals", evals |-> out.evals])
    /\ UNCHANGED <<sys, param_vals, loc, workers>>
    /\ UNCHANGED counters

\* sys.eigensys(evals_count), called by the user.
CallEigensys(evals_count, conv) ==
    /\ pc = "idle"
    /\ call' = [op |-> "eigensys", evals_count |-> evals_count]
    /\ pre' = [sys |-> sys, param_vals |-> param_vals]
    /\ LET out == eigensys(sys, evals_count, conv)
       IN Outcome(out, [kind |-> "esys", evals |-> out.evals, evecs |-> out.evecs])
    /\ UNCHANGED <<sys, param_vals, loc, workers>>
    /\ UNCHANGED counters

\* sys.matrixelement_table(operator, evals_count=evals_count), called by the
\* user without eigenvectors.
CallMatrixelementTable(operator, evals_count, conv) ==
    /\ pc = "idle"
    /\ call' = [op |-> "matrixelement_table", operator |-> operator,
                evals_count |-> evals_count]
    /\ pre' = [sys |-> sys, param_vals |-> param_vals]
    /\ LET out == matrixelement_table(sys, operator, <<>>, evals_count, conv)
       IN Outcome(out, [kind |-> "table", table |-> out.table])
    /\ UNCHANGED <<sys, param_vals, loc, workers>>
    /\ UNCHANGED counters

\* ----- equality: __eq__ ----------------------------------------------------
\* The classes of the instances that are compared; TunableTransmon is a
\* subclass of Transmon, Fluxonium is a subclass of neither.
Classes == {"Transmon", "TunableTransmon", "Fluxonium"}

issubclass(c, d) == c = d \/ (c = "TunableTransmon" /\ d = "Transmon")

\* isinstance(obj, cls), an instance being [type |-> class, dict |-> attributes].
isinstance(obj, cls) == issubclass(obj.type, cls)

\* Faulty variant of __eq__: the attributes alone are compared.
__eq___dict_only(self, other) == self.dict = other.dict

\* Lines 116-119.
__eq__(self, other) ==
    IF ~isinstance(other, self.type) THEN FALSE
    ELSE self.dict = other.dict

\* a == b: Python asks the right operand first if its class is a proper
\* subclass of the left operand's class, the left operand otherwise; __eq__
\* never answers NotImplemented, so the first answer is the result.
py_eq(a, b) ==
    IF a.type # b.type /\ issubclass(b.type, a.type) THEN __eq__(b, a)
    ELSE __eq__(a, b)

\* The caller compares the system, as an instance of self_type, with an
\* instance of other_type, in both orders.
CompareEq(self_type, other_type, other) ==
    /\ pc = "idle"
    /\ pc' = "returned"
    /\ LET a == [type |-> self_type, dict |-> sys]
           b == [type |-> other_type, dict |-> other]
       IN /\ call' = [op |-> "__eq__", self |-> a, other |-> b]
          /\ ret' = [kind |-> "bool", value |-> py_eq(a, b), reflected |-> py_eq(b, a)]
    /\ pre' = [sys |-> sys, param_vals |-> param_vals]
    /\ UNCHANGED <<sys, param_vals, loc, workers>>
    /\ UNCHANGED counters

\* ----- the sweep: get_spectrum_vs_paramvals --------------------------------
\* Faulty variant of set_paramval: the attribute is not set.
set_paramval_skip(self, paramval, param_name) == self

\* setattr(self, param_name, paramval), the first line of both _for_paramval.
set_paramval(self, paramval, param_name) == [self EXCEPT ![param_name] = paramval]

\* Both return the object as they leave it and what the solve gave.
_esys_for_paramval(self, paramval, param_name, evals_count, conv) ==
    LET s == set_paramval(self, paramval, param_name)
    IN [self |-> s, out |-> eigensys(s, evals_count, conv)]

_evals_for_paramval(self, paramval, param_name, evals_count, conv) ==
    LET s == set_paramval(self, paramval, param_name)
    IN [self |-> s, out |-> eigenvals(s, evals_count, conv)]

\* func = functools.partial(self._evals_for_paramval / self._esys_for_paramval, ...)
func(self, paramval, conv) ==
    IF ~call.get_eigenstates
    THEN _evals_for_paramval(self, paramval, call.param_name, call.evals_count, conv)
    ELSE _esys_for_paramval(self, paramval, call.param_name, call.evals_count, conv)

\* The second half of func, for a worker that has set the attribute.
func_solve(self, conv) ==
    IF ~call.get_eigenstates THEN eigenvals(self, call.evals_count, conv)
    ELSE eigensys(self, call.evals_count, conv)

\* get_map_method(num_cpus): the builtin map for one cpu, a pool's map otherwise.
get_map_method(num_cpus) == IF num_cpus = 1 THEN "map" ELSE "pool.map"

Indices == DOMAIN loc.mapdata

PendingIdx == {i \in Indices : loc.mapdata[i] = Pending}

\* The points some worker is busy with.
Taken == DOMAIN workers

Least(S) == CHOOSE i \in S : \A j \in S : i <= j

\* Lines 360-364: the snapshot, the map method.
SweepCall(param_name, evals_count, subtract_ground, get_eigenstates, num_cpus) ==
    /\ pc = "idle"
    /\ pc' = "sweep"
    /\ call' = [op |-> "get_spectrum_vs_paramvals", param_name |-> param_name,
                evals_count |-> evals_count, subtract_ground |-> subtract_ground,
                get_eigenstates |-> get_eigenstates, num_cpus |-> num_cpus]
    /\ loc' = [previous_paramval |-> sys[param_name],
               mapdata |-> [i \in 1 .. Len(param_vals) |-> Pending]]
    /\ workers' = NoWorkers
    /\ pre' = [sys |-> sys, param_vals |-> param_vals]
    /\ UNCHANGED <<sys, param_vals, ret>>
    /\ UNCHANGED counters

\* list(map(func, param_vals)): the next point, solved on the caller's object.
\* An exception leaves the function at once.
SeqPoint(conv) ==
    /\ pc = "sweep"
    /\ get_map_method(call.num_cpus) = "map"
    /\ PendingIdx # {}
    /\ LET k == Least(PendingIdx)
           r == func(sys, param_vals[k], conv)
       IN /\ sys' = r.self
          /\ IF r.out.ok
             THEN /\ loc' = [loc EXCEPT !.mapdata[k] = r.out]
                  /\ UNCHANGED <<pc, ret>>
                  /\ UNCHANGED workers
             ELSE Propagate(r.out.error)
    /\ UNCHANGED <<param_vals, call, pre>>
    /\ UNCHANGED counters

\* A free worker of the pool takes the next point: it receives func, and with
\* it a copy of the object func is bound to, and sets the attribute on the copy.
\* workers maps each point being worked on to its worker's copy.
WorkerSet ==
    /\ pc = "sweep"
    /\ get_map_method(call.num_cpus) = "pool.map"
    /\ Cardinality(Taken) < call.num_cpus
    /\ PendingIdx \ Taken # {}
    /\ LET i == Least(PendingIdx \ Taken)
           copy == sys
       IN workers' = [j \in Taken \cup {i} |->
               IF j = i THEN set_paramval(copy, param_vals[i], call.param_name)
               ELSE workers[j]]
    /\ UNCHANGED <<sys, param_vals, pc, call, loc, ret, pre>>
    /\ UNCHANGED counters

\* The worker solves on its copy; the result goes to the point's index.  An
\* exception in a worker is raised in the caller by the pool's map.
WorkerSolve(i, conv) ==
    /\ pc = "sweep"
    /\ get_map_method(call.num_cpus) = "pool.map"
    /\ i \in Taken
    /\ LET out == func_solve(workers[i], conv)
       IN IF out.ok
          THEN /\ loc' = [loc EXCEPT !.mapdata[i] = out]
               /\ workers' = [j \in Taken \ {i} |-> workers[j]]
               /\ UNCHANGED <<pc, ret>>
          ELSE Propagate(out.error)
    /\ UNCHANGED <<sys, param_vals, call, pre>>
    /\ UNCHANGED counters

\* recast_esys_mapdata / np.asarray: the list of results as tables.
eigenvalue_table_of(mapdata) == [i \in DOMAIN mapdata |-> mapdata[i].evals]

\* The eigenstate table; <<>> stands for None.
eigenstate_table_of(mapdata, get_eigenstates) ==
    IF get_eigenstates THEN [i \in DOMAIN mapdata |-> mapdata[i].evecs] ELSE <<>>

\* Faulty variant of subtract_ground_rows: the first row's ground for all rows.
subtract_first_row_ground(table, subtract_ground) ==
    IF subtract_ground
    THEN [i \in DOMAIN table |-> [l \in DOMAIN table[i] |-> table[i][l] - table[1][1]]]
    ELSE table

\* Lines 412-414: eigenvalue_table[param_index] -= eigenvalue_table[param_index][0]
subtract_ground_rows(table, subtract_ground) ==
    IF subtract_ground
    THEN [i \in DOMAIN table |-> [l \in DOMAIN table[i] |-> table[i][l] - table[i][1]]]
    ELSE table

\* Faulty variant of restore_paramval: the attribute is left as it is.
restore_paramval_skip(self, param_name, previous_paramval) == self

\* Line 416: setattr(self, param_name, previous_paramval)
restore_paramval(self, param_name, previous_paramval) ==
    [self EXCEPT ![param_name] = previous_paramval]

SpectrumData(energy_table, system_params, param_name, vals, state_table) ==
    [kind |-> "SpectrumData", energy_table |-> energy_table,
     system_params |-> system_params, param_name |-> param_name,
     param_vals |-> vals, state_table |-> state_table]

\* Lines 384-433, once the map has given every point's result.
SweepFinish ==
    /\ pc = "sweep"
    /\ PendingIdx = {}
    /\ LET eigenvalue_table ==
               subtract_ground_rows(eigenvalue_table_of(loc.mapdata),
                                    call.subtract_ground)
           eigenstate_table == eigenstate_table_of(loc.mapdata, call.get_eigenstates)
           self == restore_paramval(sys, call.param_name, loc.previous_paramval)
           spectrumdata == SpectrumData(eigenvalue_table, get_initdata(self),
                                        call.param_name, param_vals, eigenstate_table)
       IN /\ sys' = self
          /\ IF call.op = "get_matelements_vs_paramvals"
             THEN /\ pc' = "matelements"
                  /\ loc' = [previous_paramval |-> 0, spectrumdata |-> spectrumdata,
                             matelem_table |-> <<>>]
                  /\ UNCHANGED ret
             ELSE /\ pc' = "returned"
                  /\ loc' = NoLoc
                  /\ ret' = spectrumdata
    /\ UNCHANGED <<param_vals, call, workers, pre>>
    /\ UNCHANGED counters

\* ----- the matrix elements: get_matelements_vs_paramvals -------------------
\* Lines 588-595: the sweep is get_spectrum_vs_paramvals with
\* get_eigenstates=True and the default subtract_ground=False; when it has
\* returned, the call goes on at line 596 with its container.
MatelemCall(operator, param_name, evals_count, num_cpus) ==
    /\ pc = "idle"
    /\ pc' = "sweep"
    /\ call' = [op |-> "get_matelements_vs_paramvals", operator |-> operator,
                param_name |-> param_name, evals_count |-> evals_count,
                subtract_ground |-> FALSE, get_eigenstates |-> TRUE,
                num_cpus |-> num_cpus]
    /\ loc' = [previous_paramval |-> sys[param_name],
               mapdata |-> [i \in 1 .. Len(param_vals) |-> Pending]]
    /\ workers' = NoWorkers
    /\ pre' = [sys |-> sys, param_vals |-> param_vals]
    /\ UNCHANGED <<sys, param_vals, ret>>
    /\ UNCHANGED counters

\* Faulty variant of slice_evecs: the eigenvectors of the first point.
slice_evecs_first(state_table, index) == state_table[1]

\* Line 607: evecs = spectrumdata.state_table[index]
slice_evecs(state_table, index) == state_table[index]

\* Lines 601-613: one turn of the loop over the parameter values, on the
\* caller's object as the sweep left it; after the last turn the container is
\* returned with the table.
MatelemPoint ==
    /\ pc = "matelements"
    /\ LET index == Len(loc.matelem_table) + 1
           evecs == slice_evecs(loc.spectrumdata.state_table, index)
           out == matrixelement_table(sys, call.operator, evecs, call.evals_count, TRUE)
           matelem_table == Append(loc.matelem_table, out.table)
       IN IF index < Len(param_vals)
          THEN /\ loc' = [loc EXCEPT !.matelem_table = matelem_table]
               /\ UNCHANGED <<pc, ret>>
          ELSE /\ pc' = "returned"
               /\ loc' = NoLoc
               /\ ret' = [f \in DOMAIN loc.spectrumdata \cup {"matrixelem_table"} |->
                             IF f = "matrixelem_table" THEN matelem_table
                             ELSE loc.spectrumdata[f]]
    /\ UNCHANGED <<sys, param_vals, call, workers, pre>>
    /\ UNCHANGED counters

\* ----- the dispersion: _compute_dispersion, get_dispersion_vs_paramvals -----
\* Python values of the arguments transitions and levels, with their types.
PyNone == [t |-> "None"]
PyInt(v) == [t |-> "int", v |-> v]
PyTuple(v) == [t |-> "tuple", v |-> v]      \* a tuple of integers
PyTuples(v) == [t |-> "tuples", v |-> v]    \* a tuple of tuples of integers

\* not x
py_not(x) ==
    \/ x.t = "None"
    \/ x.t = "int" /\ x.v = 0
    \/ x.t \in {"tuple", "tuples"} /\ Len(x.v) = 0

\* x or y
py_or(x, y) == IF py_not(x) THEN y ELSE x

SeqRange(q) == {q[k] : k \in DOMAIN q}

SetMax(S) == CHOOSE m \in S : \A x \in S : x <= m

SetMin(S) == CHOOSE m \in S : \A x \in S : m <= x

\* The numbers np.max looks at.
np_flat(x) ==
    IF x.t = "int" THEN {x.v}
    ELSE IF x.t = "tuple" THEN SeqRange(x.v)
    ELSE UNION {SeqRange(x.v[k]) : k \in DOMAIN x.v}

\* np.max(x); of nothing, a ValueError.
np_max(x) ==
    IF np_flat(x) = {} THEN Raise("ValueError") ELSE [ok |-> TRUE, v |-> SetMax(np_flat(x))]

\* Lines 532-535: levels=k becomes (k,), else transitions=(i, j) becomes ((i, j),).
\* Faulty variant of normalize: a flat transition pair is left unwrapped.
normalize_levels_only(transitions, levels) ==
    IF levels.t = "int"
    THEN [transitions |-> transitions, levels |-> PyTuple(<<levels.v>>)]
    ELSE [transitions |-> transitions, levels |-> levels]

normalize(transitions, levels) ==
    IF levels.t = "int"
    THEN [transitions |-> transitions, levels |-> PyTuple(<<levels.v>>)]
    ELSE IF transitions.t = "tuple"
    THEN [transitions |-> PyTuples(<<transitions.v>>), levels |-> levels]
    ELSE [transitions |-> transitions, levels |-> levels]

\* np.linspace(0.0, 1.0, point_count), in ticks.
np_linspace(point_count) == [k \in 1 .. point_count |-> k - 1]

\* update_func(disp_val, sweep_val) of _compute_dispersion, lines 454-456.
update_func(self, dispersion_name, param_name, disp_val, sweep_val) ==
    [[self EXCEPT ![dispersion_name] = disp_val] EXCEPT ![param_name] = sweep_val]

\* Line 460: max_level = np.max(transitions) if not levels else np.max(levels)
max_level_of(transitions, levels) ==
    IF py_not(levels) THEN np_max(transitions) ELSE np_max(levels)

\* The grid of ParameterSweep: cell c = 1 .. point_count * n, the induced
\* sample outermost.
CellSample(c, n) == ((c - 1) \div n) + 1

CellIndex(c, n) == ((c - 1) % n) + 1

\* The object as ParameterSweep's update of cell c leaves it.
SelfAtCell(self, c) ==
    LET n == Len(param_vals)
    IN update_func(self, call.dispersion_name, call.param_name,
                   np_linspace(call.point_count)[CellSample(c, n)],
                   param_vals[CellIndex(c, n)])

\* sweep["bare_evals"]["subsys":0].toarray(): [induced sample][swept index][level]
bare_evals(self, evals_count) ==
    [a \in 1 .. call.point_count |->
        [i \in 1 .. Len(param_vals) |->
            eigenvals(SelfAtCell(self, (a - 1) * Len(param_vals) + i),
                      evals_count, TRUE).evals]]

\* whether (i, j) = el unpacks.
UnpackError(transitions) ==
    IF transitions.t = "tuples"
    THEN IF \E k \in DOMAIN transitions.v : Len(transitions.v[k]) # 2
         THEN "ValueError" ELSE "none"
    ELSE IF transitions.t = "tuple" /\ Len(transitions.v) > 0 THEN "TypeError"
    ELSE IF transitions.t \in {"int", "None"} THEN "TypeError"
    ELSE "none"

Samples(eigenenergies) == DOMAIN eigenenergies

\* Faulty variant of transition_spread: the maximum alone.
spread_max_only(eigenenergies, n, i, j) ==
    SetMax({eigenenergies[a][n][i + 1] - eigenenergies[a][n][j + 1] :
                a \in Samples(eigenenergies)})

\* Lines 474-477: np.max(energy_ij, axis=0) - np.min(energy_ij, axis=0) at n.
transition_spread(eigenenergies, n, i, j) ==
    LET energy_ij == {eigenenergies[a][n][i + 1] - eigenenergies[a][n][j + 1] :
                         a \in Samples(eigenenergies)}
    IN SetMax(energy_ij) - SetMin(energy_ij)

\* Lines 481-482.
level_spread(eigenenergies, n, j) ==
    LET energy_j == {eigenenergies[a][n][j + 1] : a \in Samples(eigenenergies)}
    IN SetMax(energy_j) - SetMin(energy_j)

\* Lines 471-482: dispersions[index][n], or the exception of the loop.
dispersion_table(eigenenergies, transitions, levels, count, max_level) ==
    IF levels.t = "None"
    THEN IF UnpackError(transitions) # "none" THEN Raise(UnpackError(transitions))
         ELSE [ok |-> TRUE,
               v |-> [index \in DOMAIN transitions.v |-> [n \in 1 .. count |->
                        transition_spread(eigenenergies, n, transitions.v[index][1],
                                          transitions.v[index][2])]]]
    ELSE IF levels.t = "int" THEN Raise("TypeError")
    ELSE IF \E k \in DOMAIN levels.v : levels.v[k] > max_level THEN Raise("IndexError")
    ELSE [ok |-> TRUE,
          v |-> [index \in DOMAIN levels.v |-> [n \in 1 .. count |->
                    level_spread(eigenenergies, n, levels.v[index])]]]

\* dispersion.T
transpose(table, count) ==
    [n \in 1 .. count |-> [index \in DOMAIN table |-> table[index][n]]]

\* get_dispersion_vs_paramvals (entry = its name), or _compute_dispersion called
\* directly.  Lines 532-535, then 445-460 up to the sweep.  The model keeps the
\* values integral: ref_param is given only where it divides every value.
DispersionCall(entry, dispersion_name, param_name, ref_param, transitions, levels, point_count) ==
    /\ pc = "idle"
    /\ dispersion_name # param_name
    /\ entry = "_compute_dispersion" => ref_param = "None"
    /\ ref_param # "None" =>
           /\ sys[ref_param] # 0
           /\ \A k \in DOMAIN param_vals : param_vals[k] % sys[ref_param] = 0
    /\ call' = [op |-> entry, dispersion_name |-> dispersion_name,
                param_name |-> param_name, ref_param |-> ref_param,
                transitions |-> transitions, levels |-> levels,
                point_count |-> point_count]
    /\ pre' = [sys |-> sys, param_vals |-> param_vals]
    /\ LET norm == IF entry = "get_dispersion_vs_paramvals"
                   THEN normalize(transitions, levels)
                   ELSE [transitions |-> transitions, levels |-> levels]
           max_level == max_level_of(norm.transitions, norm.levels)
       IN IF max_level.ok
          THEN /\ pc' = "dispersion_sweep"
               /\ loc' = [previous_dispval |-> sys[dispersion_name],
                          previous_paramval |-> sys[param_name],
                          transitions |-> norm.transitions, levels |-> norm.levels,
                          max_level |-> max_level.v, eigenenergies |-> <<>>]
               /\ UNCHANGED ret
               /\ UNCHANGED workers
          ELSE Propagate(max_level.error)
    /\ UNCHANGED <<sys, param_vals>>
    /\ UNCHANGED counters

\* ParameterSweep(hilbertspace, paramvals_by_name, update_func,
\* evals_count=max_level + 1, bare_only=True): for every cell of the grid,
\* update_func and a solve on the caller's object.  failcell: the cell whose
\* solve does not converge, 0 if all do.
ParameterSweepRun(failcell) ==
    /\ pc = "dispersion_sweep"
    /\ failcell <= call.point_count * Len(param_vals)
    /\ LET evals_count == loc.max_level + 1
           cells == call.point_count * Len(param_vals)
       IN IF ~eigh_range_ok(hamiltonian(SelfAtCell(sys, 1)), evals_count)
          THEN /\ sys' = SelfAtCell(sys, 1)
               /\ Propagate("ValueError")
          ELSE IF failcell # 0
          THEN /\ sys' = SelfAtCell(sys, failcell)
               /\ Propagate("LinAlgError")
          ELSE /\ sys' = SelfAtCell(sys, cells)
               /\ pc' = "dispersion_table"
               /\ loc' = [loc EXCEPT !.eigenenergies = bare_evals(sys, evals_count)]
               /\ UNCHANGED <<ret, workers>>
    /\ UNCHANGED <<param_vals, call, pre>>
    /\ UNCHANGED counters

\* Lines 471-486, and for get_dispersion_vs_paramvals lines 547-559.
DispersionFinish ==
    /\ pc = "dispersion_table"
    /\ LET dispersions == dispersion_table(loc.eigenenergies, loc.transitions,
                                           loc.levels, Len(param_vals), loc.max_level)
           self == restore_paramval(
                       restore_paramval(sys, call.param_name, loc.previous_paramval),
                       call.dispersion_name, loc.previous_dispval)
           vals == IF call.ref_param = "None" THEN param_vals
                   ELSE [k \in DOMAIN param_vals |-> param_vals[k] \div self[call.ref_param]]
           name == IF call.ref_param = "None" THEN call.param_name
                   ELSE call.param_name \o "/" \o call.ref_param
       IN IF ~dispersions.ok
          THEN /\ Propagate(dispersions.error)
               /\ UNCHANGED <<sys, param_vals>>
          ELSE /\ pc' = "returned"
               /\ loc' = NoLoc
               /\ UNCHANGED workers
               /\ sys' = self
               /\ IF call.op = "_compute_dispersion"
                  THEN /\ ret' = [kind |-> "tuple",
                                  eigenenergies |-> loc.eigenenergies,
                                  dispersions |-> dispersions.v]
                       /\ UNCHANGED param_vals
                  ELSE /\ param_vals' = vals
                       /\ ret' = [kind |-> "SpectrumData",
                                  energy_table |-> loc.eigenenergies,
                                  system_params |-> get_initdata(self),
                                  param_name |-> name, param_vals |-> vals,
                                  labels |-> py_or(loc.levels, loc.transitions),
                                  dispersion |-> transpose(dispersions.v, Len(param_vals))]
    /\ UNCHANGED <<call, pre>>
    /\ UNCHANGED counters

\* The transitions and levels the model calls with.
TransitionInputs ==
    {PyTuple(<<0, 1>>), PyTuple(<<0, 1, 2>>), PyTuple(<<1, HilbertDim>>),
     PyTuples(<< <<0, 1>> >>),
     PyTuples(<< <<1, 1>>, <<1, 0>> >>), PyTuples(<< <<2, 0>>, <<1, 2>> >>)}

LevelInputs == {PyNone, PyInt(0), PyInt(1), PyTuple(<<0>>), PyTuple(<<2, 0>>)}

Next ==
    \/ \E n \in ParamNames, v \in Vals : set_params(n, v)
    \/ \E a \in ParamSeqs : NewParamVals(a)
    \/ Ack
    \/ \E c \in 1 .. HilbertDim + 1, conv \in BOOLEAN : CallEigenvals(c, conv)
    \/ \E c \in 1 .. HilbertDim + 1, conv \in BOOLEAN : CallEigensys(c, conv)
    \/ \E c \in 1 .. HilbertDim + 1, conv \in BOOLEAN :
          CallMatrixelementTable("n_operator", c, conv)
    \/ \E c \in Classes, d \in Classes, o \in [EJ : Vals, ng : {sys.ng}, EC : {sys.EC}] :
          CompareEq(c, d, o)
    \/ \E n \in ParamNames, c \in 1 .. HilbertDim + 1, sg \in BOOLEAN,
          ge \in BOOLEAN, cpus \in {1, MaxCpus} : SweepCall(n, c, sg, ge, cpus)
    \/ \E conv \in BOOLEAN : SeqPoint(conv)
    \/ WorkerSet
    \/ \E i \in DOMAIN workers, conv \in BOOLEAN : WorkerSolve(i, conv)
    \/ SweepFinish
    \/ \E n \in ParamNames, c \in 1 .. HilbertDim + 1, cpus \in {1, MaxCpus} :
          MatelemCall("n_operator", n, c, cpus)
    \/ MatelemPoint
    \/ \E e \in {"get_dispersion_vs_paramvals", "_compute_dispersion"},
          d \in {"ng"}, n \in {"EJ"}, r \in {"None", "EC"},
          t \in TransitionInputs, l \in LevelInputs :
              DispersionCall(e, d, n, r, t, l, PointCount)
    \/ \E f \in 0 .. PointCount * MaxLen : ParameterSweepRun(f)
    \/ DispersionFinish

Spec == Init /\ [][Next]_vars

\* The instance counter under creations and destructions that come at any
\* time, between and during the calls on the caller's system.
CounterNext ==
    \/ Create
    \/ Destroy
    \/ \E n \in ParamNames, v \in Vals : set_params(n, v)
    \/ Ack
    \/ \E conv \in BOOLEAN : CallEigenvals(HilbertDim, conv)
    \/ \E n \in ParamNames, cpus \in {1, MaxCpus} :
          SweepCall(n, HilbertDim, FALSE, FALSE, cpus)
    \/ \E conv \in BOOLEAN : SeqPoint(conv)
    \/ WorkerSet
    \/ \E i \in DOMAIN workers, conv \in BOOLEAN : WorkerSolve(i, conv)
    \/ SweepFinish

CounterSpec == Init /\ [][CounterNext]_vars

\* ===== properties =========================================================
IsSweep == call.op = "get_spectrum_vs_paramvals"

IsSinglePoint == call.op \in {"eigenvals", "eigensys"}

IsDispersion == call.op \in {"get_dispersion_vs_paramvals", "_compute_dispersion"}

\* The evals_count lowest energies, ascending, of the system s.
LowestEnergies(s, evals_count) ==
    SubSeq(SortSeq(hamiltonian(s), LAMBDA x, y : x < y), 1, evals_count)

\* The caller's system of before the call, with the swept attribute at the
\* n-th value of the array.
PreAt(n) == [pre.sys EXCEPT ![call.param_name] = pre.param_vals[n]]

Ascending(row) == \A k \in DOMAIN row : \A l \in DOMAIN row : k <= l => row[k] <= row[l]

\* C1: when get_spectrum_vs_paramvals has returned, for either value of
\* get_eigenstates and subtract_ground and any worker count, the attribute
\* named param_name has the value it had right before the call.
C1_SweepReturnRestoresParam ==
    (pc = "returned" /\ IsSweep) => sys[call.param_name] = pre.sys[call.param_name]

\* A sequential sweep has returned whose last swept value is not the value
\* the attribute had before.
C1_Witness ==
    /\ pc = "returned" /\ IsSweep /\ call.num_cpus = 1
    /\ call.get_eigenstates /\ call.subtract_ground
    /\ param_vals[Len(param_vals)] # pre.sys[call.param_name]
    /\ param_vals[1] # pre.sys[call.param_name]

\* C2: when a point's solve raises in a sequential sweep, the caller finds the
\* attribute named param_name at its value of before the call.
C2_SeqSweepRaiseRestoresParam ==
    (pc = "raised" /\ IsSweep /\ call.num_cpus = 1)
        => sys[call.param_name] = pre.sys[call.param_name]

\* C3: row i of the returned energy table is the solve with the swept attribute
\* at param_vals[i] (shifted by its own ground when subtract_ground), whatever
\* the worker count and the order in which the points were solved.
C3_RowsFollowParamVals ==
    (pc = "returned" /\ IsSweep) =>
        /\ DOMAIN ret.energy_table = DOMAIN pre.param_vals
        /\ ret.param_vals = pre.param_vals
        /\ \A i \in DOMAIN pre.param_vals :
              LET e == LowestEnergies(PreAt(i), call.evals_count)
              IN ret.energy_table[i] =
                    IF call.subtract_ground
                    THEN [l \in DOMAIN e |-> e[l] - e[1]] ELSE e

\* A sweep by several workers has returned a table with two different rows.
C3_Witness ==
    /\ pc = "returned" /\ IsSweep /\ call.num_cpus > 1
    /\ Len(param_vals) >= 2
    /\ ret.energy_table[1] # ret.energy_table[2]
    /\ ret.energy_table[1] # LowestEnergies(pre.sys, call.evals_count)

\* C4: after a dispersion call, returned or raised, the attributes named
\* dispersion_name and param_name both have their values of before the call.
C4_DispersionRestoresBoth ==
    (pc \in {"returned", "raised"} /\ IsDispersion) =>
        /\ sys[call.dispersion_name] = pre.sys[call.dispersion_name]
        /\ sys[call.param_name] = pre.sys[call.param_name]

\* C5: asking for more eigenvalues than hilbertdim(), of the single-point solve
\* or of a sweep, ends in the index-range error with nothing returned, and the
\* system is after the failed call as it was before.
C5_TooManyEvalsRaisesAndKeepsSystem ==
    ((IsSinglePoint \/ IsSweep) /\ call.evals_count > hilbertdim(pre.sys)) =>
        /\ pc # "returned"
        /\ pc = "raised" => (ret = [kind |-> "error", error |-> "ValueError"]
                             /\ sys = pre.sys)

\* C6: in a parallel sweep every worker's copy has the swept attribute at the
\* value of the worker's own point and everything else as the caller's object
\* had it, and the caller's object stays as it was before the call.
C6_WorkersOwnCopies ==
    (IsSweep /\ call.num_cpus > 1) =>
        /\ sys = pre.sys
        /\ \A i \in DOMAIN workers : workers[i] = PreAt(i)

\* Two workers hold copies at two different swept values, neither of them the
\* caller's value.
C6_Witness ==
    /\ pc = "sweep" /\ IsSweep /\ call.num_cpus > 1
    /\ \E i \in DOMAIN workers : \E j \in DOMAIN workers :
          /\ workers[i][call.param_name] # workers[j][call.param_name]
          /\ workers[i][call.param_name] # sys[call.param_name]
          /\ workers[j][call.param_name] # sys[call.param_name]

\* C7: a sweep with a failed point hands the caller the error alone; a table
\* that a sweep returns has the complete row of every point of param_vals.
C7_NoPartialTable ==
    IsSweep =>
        /\ pc = "raised" => (ret.kind = "error" /\ DOMAIN ret = {"kind", "error"})
        /\ pc = "returned" =>
              /\ ret.kind = "SpectrumData"
              /\ DOMAIN ret.energy_table = DOMAIN pre.param_vals
              /\ \A i \in DOMAIN ret.energy_table :
                    Len(ret.energy_table[i]) = call.evals_count

\* A sweep of two points has raised with a convergence failure, so not at its
\* first solve of a too large count.
C7_Witness ==
    /\ pc = "raised" /\ IsSweep /\ Len(param_vals) >= 2
    /\ ret = [kind |-> "error", error |-> "LinAlgError"]
    /\ sys[call.param_name] = param_vals[2]
    /\ param_vals[2] # param_vals[1]

\* C8: every row of the energies that eigenvals, eigensys and the sweep return,
\* with or without eigenvectors and ground subtraction, is non-decreasing.
C8_RowsAscending ==
    pc = "returned" =>
        /\ IsSinglePoint => Ascending(ret.evals)
        /\ IsSweep => \A i \in DOMAIN ret.energy_table : Ascending(ret.energy_table[i])

\* A sweep has returned a row of a point where the Hamiltonian's diagonal is
\* not in ascending order.
C8_Witness ==
    /\ pc = "returned" /\ IsSweep /\ call.evals_count = hilbertdim(pre.sys)
    /\ \E i \in DOMAIN param_vals :
          /\ ~Ascending(hamiltonian(PreAt(i)))
          /\ ret.energy_table[i][1] < ret.energy_table[i][2]

\* C9: with subtract_ground the first entry of every returned row is 0 and each
\* entry of row n is the energy at param_vals[n] minus the lowest energy at
\* param_vals[n].
C9_GroundSubtractedPerRow ==
    (pc = "returned" /\ IsSweep /\ call.subtract_ground) =>
        \A n \in DOMAIN ret.energy_table :
            LET e == LowestEnergies(PreAt(n), call.evals_count)
            IN /\ ret.energy_table[n][1] = 0
               /\ \A l \in DOMAIN ret.energy_table[n] :
                     ret.energy_table[n][l] = e[l] - e[1]

\* A ground-subtracted table of two points whose grounds differ and are not 0.
C9_Witness ==
    /\ pc = "returned" /\ IsSweep /\ call.subtract_ground
    /\ Len(param_vals) >= 2 /\ call.evals_count >= 2
    /\ LowestEnergies(PreAt(1), 1)[1] # LowestEnergies(PreAt(2), 1)[1]
    /\ LowestEnergies(PreAt(1), 1)[1] # 0
    /\ LowestEnergies(PreAt(2), 1)[1] # 0

\* The transitions a dispersion call asks for, as a sequence of pairs.
RequestedTransitions ==
    IF call.transitions.t = "tuple" THEN <<call.transitions.v>> ELSE call.transitions.v

\* The cube and the table of a returned dispersion call, the table as
\* [transition][swept index].
ReturnedCube == IF ret.kind = "tuple" THEN ret.eigenenergies ELSE ret.energy_table

ReturnedDispersion(t, n) ==
    IF ret.kind = "tuple" THEN ret.dispersions[t][n] ELSE ret.dispersion[n][t]

\* The caller's system of before the call at cell (a, n) of the grid.
PreAtCell(a, n) ==
    [pre.sys EXCEPT ![call.dispersion_name] = a - 1,
                    ![call.param_name] = pre.param_vals[n]]

\* C10: for a dispersion call by transitions, the returned cube is indexed
\* [induced sample][swept index][level], holds the lowest (largest requested
\* index + 1) energies of each cell, and the entry of transition (i, j) at
\* swept index n is max over the samples of E_i - E_j minus the min of it.
C10_TransitionDispersion ==
    (pc = "returned" /\ IsDispersion /\ call.levels = PyNone) =>
        LET cube == ReturnedCube
            req == RequestedTransitions
            top == SetMax(UNION {{req[t][1], req[t][2]} : t \in DOMAIN req})
        IN /\ DOMAIN cube = 1 .. call.point_count
           /\ \A a \in DOMAIN cube :
                 /\ DOMAIN cube[a] = DOMAIN pre.param_vals
                 /\ \A n \in DOMAIN cube[a] :
                       cube[a][n] = LowestEnergies(PreAtCell(a, n), top + 1)
           /\ \A t \in DOMAIN req : \A n \in DOMAIN pre.param_vals :
                 LET d == {cube[a][n][req[t][1] + 1] - cube[a][n][req[t][2] + 1] :
                              a \in DOMAIN cube}
                 IN ReturnedDispersion(t, n) = SetMax(d) - SetMin(d)

\* A dispersion of two transitions has returned, with an entry that is not 0
\* and a difference E_i - E_j that is not 0 at every sample.
C10_Witness ==
    /\ pc = "returned" /\ IsDispersion /\ call.levels = PyNone
    /\ Len(RequestedTransitions) = 2
    /\ \E t \in DOMAIN RequestedTransitions : \E n \in DOMAIN pre.param_vals :
          /\ ReturnedDispersion(t, n) > 0
          /\ \A a \in DOMAIN ReturnedCube :
                ReturnedCube[a][n][RequestedTransitions[t][1] + 1]
                    # ReturnedCube[a][n][RequestedTransitions[t][2] + 1]

\* The levels a dispersion call asks for, as a sequence.
RequestedLevels == IF call.levels.t = "int" THEN <<call.levels.v>> ELSE call.levels.v

\* C11: whenever levels is supplied to a dispersion call, also as the integer 0
\* or the tuple (0,), the call fails only if a solve fails, and returns a table
\* with one entry per requested level j and swept value: max over the samples
\* of E_j minus min over the samples of E_j, from a cube of (largest requested
\* level + 1) energies per cell; transitions plays no part.
C11_LevelsTakePriority ==
    (IsDispersion /\ call.levels # PyNone) =>
        LET req == RequestedLevels
            top == SetMax(SeqRange(req))
        IN /\ pc = "raised" =>
                 \/ ret.error = "LinAlgError"
                 \/ ret.error = "ValueError" /\ top + 1 > hilbertdim(pre.sys)
           /\ pc = "returned" =>
                 /\ \A a \in DOMAIN ReturnedCube : \A n \in DOMAIN ReturnedCube[a] :
                       ReturnedCube[a][n] = LowestEnergies(PreAtCell(a, n), top + 1)
                 /\ \A t \in DOMAIN req : \A n \in DOMAIN pre.param_vals :
                       LET e == {ReturnedCube[a][n][req[t] + 1] : a \in DOMAIN ReturnedCube}
                       IN ReturnedDispersion(t, n) = SetMax(e) - SetMin(e)

\* What a dispersion call asks for, in singleton-sequence form: the level
\* indices of each entry of the table, a pair for a transition.
RequestedEntries ==
    IF call.levels # PyNone THEN [t \in DOMAIN RequestedLevels |-> <<RequestedLevels[t]>>]
    ELSE RequestedTransitions

\* C12: the result of get_dispersion_vs_paramvals is a function of the
\* singleton-sequence form of levels and transitions: levels=k and levels=(k,),
\* transitions=(i, j) and ((i, j),) give the same cube, the same table and the
\* same labels, and neither short form fails as a non-sequence.
C12_ShortFormsSameResult ==
    (call.op = "get_dispersion_vs_paramvals" /\ pc \in {"returned", "raised"}) =>
        LET req == RequestedEntries
            top == SetMax(UNION {SeqRange(req[t]) : t \in DOMAIN req})
            E(a, n) == LowestEnergies(PreAtCell(a, n), top + 1)
            D(t, n) == {IF Len(req[t]) = 1 THEN E(a, n)[req[t][1] + 1]
                        ELSE E(a, n)[req[t][1] + 1] - E(a, n)[req[t][2] + 1] :
                            a \in 1 .. call.point_count}
        IN IF pc = "raised" THEN ret.error # "TypeError"
           ELSE /\ ret.labels = IF call.levels # PyNone THEN PyTuple(RequestedLevels)
                                ELSE PyTuples(RequestedTransitions)
                /\ ret.energy_table =
                       [a \in 1 .. call.point_count |-> [n \in DOMAIN pre.param_vals |-> E(a, n)]]
                /\ ret.dispersion =
                       [n \in DOMAIN pre.param_vals |->
                           [t \in DOMAIN req |-> SetMax(D(t, n)) - SetMin(D(t, n))]]

\* The short forms levels=0 and transitions=(0, 1) have returned labelled as
\* (0,) and ((0, 1),), the transition with a dispersion that is not 0.
C12_Witness ==
    /\ call.op = "get_dispersion_vs_paramvals" /\ pc = "returned"
    /\ \/ call.levels = PyInt(0) /\ ret.labels = PyTuple(<<0>>)
       \/ /\ call.levels = PyNone /\ call.transitions = PyTuple(<<0, 1>>)
          /\ ret.labels = PyTuples(<< <<0, 1>> >>)
          /\ \E n \in DOMAIN ret.dispersion : ret.dispersion[n][1] > 0

\* C18: get_dispersion_vs_paramvals leaves the caller's param_vals as it was
\* before the call, for every ref_param; the divided values are in the returned
\* container only, under the name param_name/ref_param.
C18_CallerParamValsUnchanged ==
    (call.op = "get_dispersion_vs_paramvals" /\ pc = "returned") =>
        /\ param_vals = pre.param_vals
        /\ call.ref_param # "None" =>
              /\ ret.param_name = call.param_name \o "/" \o call.ref_param
              /\ ret.param_vals = [k \in DOMAIN pre.param_vals |->
                                      pre.param_vals[k] \div pre.sys[call.ref_param]]

IsMatelements == call.op = "get_matelements_vs_paramvals"

\* The basis states of the evals_count lowest energies of the system s, in
\* ascending order of the energy, equal energies in the order of the basis.
LowestStates(s, evals_count) ==
    LET h == hamiltonian(s)
        before(c, b) == h[c] < h[b] \/ (h[c] = h[b] /\ c < b)
        rank(b) == Cardinality({c \in DOMAIN h : before(c, b)}) + 1
    IN [k \in 1 .. evals_count |-> (CHOOSE b \in DOMAIN h : rank(b) = k) - 1]

\* C13: get_matelements_vs_paramvals returns the container of the sweep (the
\* energies and eigenvectors solved at each param_vals[n]) with a table of
\* shape (len(param_vals), evals_count, evals_count); slice n is the matrix
\* element table of the operator between the eigenvectors in state_table[n].
C13_SlicesFromStateTable ==
    (pc = "returned" /\ IsMatelements) =>
        /\ ret.kind = "SpectrumData"
        /\ ret.param_name = call.param_name
        /\ ret.param_vals = pre.param_vals
        /\ DOMAIN ret.matrixelem_table = DOMAIN pre.param_vals
        /\ \A n \in DOMAIN pre.param_vals :
              /\ ret.energy_table[n] = LowestEnergies(PreAt(n), call.evals_count)
              /\ ret.state_table[n] = LowestStates(PreAt(n), call.evals_count)
              /\ DOMAIN ret.matrixelem_table[n] = 1 .. call.evals_count
              /\ \A i \in 1 .. call.evals_count :
                    /\ DOMAIN ret.matrixelem_table[n][i] = 1 .. call.evals_count
                    /\ \A j \in 1 .. call.evals_count :
                          ret.matrixelem_table[n][i][j] =
                              n_operator(sys)[ret.state_table[n][i] + 1]
                                             [ret.state_table[n][j] + 1]

\* Matrix elements of two points have returned, the two points with different
\* eigenvectors and different slices.
C13_Witness ==
    /\ pc = "returned" /\ IsMatelements
    /\ Len(pre.param_vals) >= 2
    /\ ret.state_table[1] # ret.state_table[2]
    /\ ret.matrixelem_table[1] # ret.matrixelem_table[2]

IsSolve == call.op \in {"eigenvals", "eigensys", "matrixelement_table"}

\* C14: a single-point solve (eigenvals, eigensys, matrixelement_table that
\* solves for its eigenvectors) leaves every attribute of the object as it was,
\* whether it returns or raises.
C14_SolveKeepsAttributes ==
    (IsSolve /\ pc \in {"returned", "raised"}) => sys = pre.sys

\* A matrixelement_table call on a system with attributes that are not 0 has
\* failed in its solve.
C14_Witness ==
    /\ call.op = "matrixelement_table" /\ pc = "raised"
    /\ ret.error = "LinAlgError"
    /\ sys.EJ # 0 /\ sys.ng # 0

\* The slices of the matrix element table computed so far.
MatelemSlices ==
    IF pc = "matelements" THEN loc.matelem_table
    ELSE IF pc = "returned" THEN ret.matrixelem_table
    ELSE <<>>

\* C17: in get_matelements_vs_paramvals the swept attribute is back at its
\* value of before the call when the loop over the slices starts and while it
\* runs; slice n is the operator's matrix of the system of before the call,
\* not of param_vals[n], between the eigenvectors solved at param_vals[n].
C17_OperatorAtPreCallValue ==
    IsMatelements =>
        /\ pc = "matelements" => sys = pre.sys
        /\ \A n \in DOMAIN MatelemSlices :
              LET evecs == LowestStates(PreAt(n), call.evals_count)
              IN MatelemSlices[n] =
                     [i \in 1 .. call.evals_count |-> [j \in 1 .. call.evals_count |->
                         n_operator(pre.sys)[evecs[i] + 1][evecs[j] + 1]]]

\* Matrix elements have returned with a slice, of a point away from the value
\* of before the call, that is not the table the operator gives at that point.
C17_Witness ==
    /\ pc = "returned" /\ IsMatelements
    /\ \E n \in DOMAIN pre.param_vals :
          /\ pre.param_vals[n] # pre.sys[call.param_name]
          /\ ret.matrixelem_table[n] #
                 get_matrixelement_table(n_operator(PreAt(n)), ret.state_table[n])

\* C15: a == b holds exactly if a and b have the same class and the same
\* attributes, and a == b is b == a, also when the class of one is a subclass
\* of the class of the other.
C15_EqualIffSameClassAndDict ==
    (pc = "returned" /\ call.op = "__eq__") =>
        /\ ret.value <=> (call.self.type = call.other.type
                            /\ call.self.dict = call.other.dict)
        /\ ret.value = ret.reflected

\* An instance and an instance of a subclass with the same attributes have
\* been compared, and are not equal.
C15_Witness ==
    /\ pc = "returned" /\ call.op = "__eq__"
    /\ call.self.type # call.other.type
    /\ issubclass(call.other.type, call.self.type)
    /\ call.self.dict = call.other.dict
    /\ ~ret.value /\ ~ret.reflected

\* C16: the instance counter is the number of instances created minus the
\* number destroyed: a creation raises it by one, a destruction lowers it by
\* one, no sweep, solve or set_params changes it, and it is never negative.
C16_CounterIsLiveInstances ==
    /\ _quantumsystem_counter = created - destroyed
    /\ _quantumsystem_counter >= 0

\* A sweep has returned after an instance was created and one destroyed.
C16_Witness ==
    /\ pc = "returned" /\ IsSweep
    /\ created = MaxInstances /\ destroyed >= 1

====
